---- MODULE Spec2Model ----
(***************************************************************************)
(* LokiLabelBrowserPopover (LokiLabelBrowser.tsx): the label browser of    *)
(* the Loki query editor, as a state machine.  The state is the React      *)
(* component state (labels, searchTerm), the persisted last-used-labels    *)
(* entry of the store, the getLabelValues calls in flight and the calls    *)
(* made to the onChange prop.  Every event handler is one action: React    *)
(* runs a handler, its batched setState updaters and their callbacks to    *)
(* completion before the next event or promise continuation.               *)
(***************************************************************************)
EXTENDS Integers, Sequences, FiniteSets, TLC

VARIABLES
    phase,          \* "constructed" | "starting" | "ready" | "failed": componentDidMount / start()
    labels,         \* this.state.labels: sequence of SelectableLabel
    searchTerm,     \* this.state.searchTerm
    persisted,      \* store entry LAST_USED_LABELS_KEY: sequence of label names
    selectedLabels, \* the list componentDidMount read from the store, held by the start() continuation
    inflight,       \* per label name: getLabelValues(name) promises not yet settled
    onChangeCount,  \* how many times props.onChange has been invoked
    onChangeArg,    \* the argument of its last invocation
    selectorArg,    \* SpecBuildSelector: the label list handed to buildSelector
    selectorResult  \* SpecBuildSelector: what buildSelector returned for it, once called

compVars == <<phase, labels, searchTerm, persisted, selectedLabels, inflight,
              onChangeCount, onChangeArg>>
pureVars == <<selectorArg, selectorResult>>
vars == <<compVars, pureVars>>

----------------------------------------------------------------------------
(* Bounds of the model *)

\* getLabelValues calls of one label the model lets be in flight together
MaxInFlight == 2
\* onChange invocations the model records
MaxOnChange == 1
\* longest label list handed to buildSelector in SpecBuildSelector
MaxBuildLen == 3

\* label keys the provider may return
Names == {"job", "env"}
\* label values the provider may return ("" is a legal string)
Values == {"api", "web", ""}
\* results getLabelValues may resolve with
ValueLists == {<<>>, <<"api", "web">>}
\* results getLabelKeys may return once start() has resolved
KeyLists == {<<>>, <<"job">>, <<"job", "env">>}
\* contents the store entry may have when the component mounts
StoredLists == {<<>>, <<"job">>, <<"env", "job">>}
\* texts typed into the search input
SearchTerms == {"", "ab", "BA", "("}

----------------------------------------------------------------------------
(* Optional fields: values?: string[] and value?: string *)

Undefined == <<>>
Some(x) == <<x>>
IsDefined(o) == o # Undefined
Get(o) == o[1]

\* JavaScript truthiness of an optional string: undefined and "" are falsy
Truthy(o) == IsDefined(o) /\ Get(o) # ""

\* SelectableLabel
NewLabel(name, selected) ==
    [name |-> name, selected |-> selected, loading |-> FALSE,
     values |-> Undefined, value |-> Undefined]

----------------------------------------------------------------------------
(* buildSelector *)

\* Array.prototype.join
RECURSIVE Join(_, _)
Join(strs, sep) ==
    IF Len(strs) = 0 THEN ""
    ELSE IF Len(strs) = 1 THEN strs[1]
    ELSE strs[1] \o sep \o Join(Tail(strs), sep)

\* fault variant of SelectorEntry: tests label.selected instead of label.value
SelectorEntryOfSelected(acc, label) ==
    IF label.selected
    THEN Append(acc, label.name \o "=\"" \o (IF IsDefined(label.value) THEN Get(label.value) ELSE "undefined") \o "\"")
    ELSE acc

\* the reduce callback: push `${label.name}="${label.value}"` when label.value is truthy
SelectorEntry(acc, label) ==
    IF Truthy(label.value)
    THEN Append(acc, label.name \o "=\"" \o Get(label.value) \o "\"")
    ELSE acc

RECURSIVE Reduce(_, _)
Reduce(ls, acc) ==
    IF Len(ls) = 0 THEN acc
    ELSE Reduce(Tail(ls), SelectorEntry(acc, Head(ls)))

buildSelector(ls) == Join(<<"{", Join(Reduce(ls, <<>>), ","), "}">>, "")

----------------------------------------------------------------------------
(* Strings as character sequences, for the search matcher of render() *)

\* String.prototype.split(''), for the strings of the model
Chars(s) ==
    CASE s = ""    -> <<>>
      [] s = "job" -> <<"j", "o", "b">>
      [] s = "env" -> <<"e", "n", "v">>
      [] s = "api" -> <<"a", "p", "i">>
      [] s = "web" -> <<"w", "e", "b">>
      [] s = "ab"  -> <<"a", "b">>
      [] s = "BA"  -> <<"B", "A">>
      [] s = "("   -> <<"(">>

\* case folding of the 'i' flag
Lower(c) ==
    CASE c = "A" -> "a"
      [] c = "B" -> "b"
      [] OTHER   -> c

\* `${label.name}="${value}"`
Display(name, value) == Chars(name) \o <<"=", "\"">> \o Chars(value) \o <<"\"">>

\* searchTerm.split('').join('.*')
RECURSIVE JoinChars(_, _)
JoinChars(cs, sep) ==
    IF Len(cs) = 0 THEN <<>>
    ELSE IF Len(cs) = 1 THEN <<cs[1]>>
    ELSE <<cs[1]>> \o sep \o JoinChars(Tail(cs), sep)

PatternOf(term) == JoinChars(Chars(term), <<".", "*">>)

\* new RegExp(pattern, 'i') over the characters of the model: a letter or '.' is an
\* atom, '*' repeats the atom before it, '(' opens a group that nothing closes.
\* Undefined stands for the SyntaxError the constructor throws.
RECURSIVE Compile(_, _, _)
Compile(p, i, acc) ==
    IF i > Len(p) THEN Some(acc)
    ELSE IF p[i] = "(" THEN Undefined                \* unterminated group
    ELSE IF p[i] = "*" THEN Undefined                \* nothing to repeat
    ELSE IF i + 1 <= Len(p) /\ p[i + 1] = "*"
         THEN Compile(p, i + 2, Append(acc, [atom |-> p[i], star |-> TRUE]))
         ELSE Compile(p, i + 1, Append(acc, [atom |-> p[i], star |-> FALSE]))

NewRegExp(term) == Compile(PatternOf(term), 1, <<>>)

\* fault variant of AtomMatches: the 'i' flag is missing
AtomMatchesCaseSensitive(a, c) == a.atom = "." \/ a.atom = c

AtomMatches(a, c) == a.atom = "." \/ Lower(a.atom) = Lower(c)

RECURSIVE MatchHere(_, _, _, _)
MatchHere(re, i, s, j) ==
    IF i > Len(re) THEN TRUE
    ELSE IF re[i].star
         THEN \E k \in j..(Len(s) + 1) :
                 /\ \A m \in j..(k - 1) : AtomMatches(re[i], s[m])
                 /\ MatchHere(re, i + 1, s, k)
         ELSE /\ j <= Len(s)
              /\ AtomMatches(re[i], s[j])
              /\ MatchHere(re, i + 1, s, j + 1)

\* matcher.test(display): the pattern is not anchored
Test(re, s) == \E j \in 1..(Len(s) + 1) : MatchHere(re, 1, s, j)

\* fault variant of FilterValues: a pattern that does not compile leaves no row
FilterValuesEmptyOnError(name, vals, term) ==
    IF term = "" THEN vals
    ELSE LET matcher == NewRegExp(term)
         IN  IF ~IsDefined(matcher) THEN <<>>
             ELSE SelectSeq(vals, LAMBDA v : Test(Get(matcher), Display(name, v)))

\* the rows render() builds for one selected label with values: the values whose
\* display string passes the matcher; all of them when searchTerm is empty or
\* the RegExp constructor throws
FilterValues(name, vals, term) ==
    IF term = "" THEN vals
    ELSE LET matcher == NewRegExp(term)
         IN  IF ~IsDefined(matcher) THEN vals
             ELSE SelectSeq(vals, LAMBDA v : Test(Get(matcher), Display(name, v)))

\* the values render() shows as rows of label l (none unless selected with values)
RowsOf(l, term) ==
    IF l.selected /\ IsDefined(l.values)
    THEN FilterValues(l.name, Get(l.values), term)
    ELSE <<>>

\* the first label with that name: labels.find(l => l.name === name)
Find(ls, name) ==
    IF \E i \in DOMAIN ls : ls[i].name = name
    THEN Some(ls[CHOOSE i \in DOMAIN ls : ls[i].name = name /\ \A j \in 1..(i - 1) : ls[j].name # name])
    ELSE Undefined

----------------------------------------------------------------------------
(* The component *)

Zero == [n \in Names |-> 0]

Init ==
    /\ phase = "constructed"
    /\ labels = <<>>
    /\ searchTerm = ""
    /\ persisted \in StoredLists
    /\ selectedLabels = <<>>
    /\ inflight = Zero
    /\ onChangeCount = 0
    /\ onChangeArg = Undefined
    /\ selectorArg = <<>>
    /\ selectorResult = Undefined

\* { ...label, ...updatedFields }
Spread(label, updatedFields) ==
    [f \in DOMAIN label |-> IF f \in DOMAIN updatedFields THEN updatedFields[f] ELSE label[f]]

\* the updater updateLabelState hands to setState, applied to a label list
updateLabelState(ls, name, updatedFields) ==
    [i \in DOMAIN ls |-> IF ls[i].name = name THEN Spread(ls[i], updatedFields) ELSE ls[i]]

\* names of the selected labels, in label order
SelectedNames(ls) ==
    LET sel == SelectSeq(ls, LAMBDA l : l.selected)
    IN  [i \in DOMAIN sel |-> sel[i].name]

\* fault variant of fetchValuesStart: the loading flag is not raised
fetchValuesStartSilent(ls, name) == ls

\* fetchValues up to its await: loading: true, then the getLabelValues call
fetchValuesStart(ls, name) == updateLabelState(ls, name, [loading |-> TRUE])

Includes(list, x) == \E i \in DOMAIN list : list[i] = x

\* the set of names a list of labels fetches values for
RECURSIVE FetchAll(_, _)
FetchAll(ls, names) ==
    IF Len(names) = 0 THEN ls
    ELSE FetchAll(fetchValuesStart(ls, Head(names)), Tail(names))

CountIn(list, x) == Cardinality({i \in DOMAIN list : list[i] = x})

----------------------------------------------------------------------------
(* componentDidMount and the continuation of languageProvider.start() *)

componentDidMount ==
    /\ phase = "constructed"
    /\ selectedLabels' = persisted          \* store.getObject(LAST_USED_LABELS_KEY, [])
    /\ phase' = "starting"                  \* languageProvider.start()
    /\ UNCHANGED <<labels, searchTerm, persisted, inflight, onChangeCount, onChangeArg, pureVars>>

\* getLabelKeys().map(label => ({ name, selected: selectedLabels.includes(label), loading: false }))
MountLabels(keys, stored) ==
    [i \in DOMAIN keys |-> NewLabel(keys[i], Includes(stored, keys[i]))]

\* fault variant of MountFetches: fetches the values of every label
MountFetchesAll(ls) == [i \in DOMAIN ls |-> ls[i].name]

\* the labels the setState callback calls fetchValues for
MountFetches(ls) == SelectedNames(ls)

startResolved(keys) ==
    /\ phase = "starting"
    /\ LET ls == MountLabels(keys, selectedLabels)
           toFetch == MountFetches(ls)
       IN  /\ labels' = FetchAll(ls, toFetch)
           /\ inflight' = [n \in Names |-> inflight[n] + CountIn(toFetch, n)]
    /\ phase' = "ready"
    /\ selectedLabels' = <<>>               \* the continuation has run: its closure is gone
    /\ UNCHANGED <<searchTerm, persisted, onChangeCount, onChangeArg, pureVars>>

\* start() rejects: there is no catch, the continuation never runs
startRejected ==
    /\ phase = "starting"
    /\ phase' = "failed"
    /\ selectedLabels' = <<>>
    /\ UNCHANGED <<labels, searchTerm, persisted, inflight, onChangeCount, onChangeArg, pureVars>>

\* render() returns the LoadingPlaceholder alone while labels is empty
Rendered == Len(labels) > 0

----------------------------------------------------------------------------
(* Event handlers *)

onChangeSearch(term) ==
    /\ Rendered
    /\ searchTerm' = term
    /\ UNCHANGED <<phase, labels, persisted, selectedLabels, inflight,
                   onChangeCount, onChangeArg, pureVars>>

\* fault variant of onClickAccept: resets the chosen values once the selector is handed over
onClickAcceptResets ==
    /\ Rendered
    /\ onChangeCount < MaxOnChange
    /\ onChangeCount' = onChangeCount + 1
    /\ onChangeArg' = Some(buildSelector(labels))
    /\ labels' = [i \in DOMAIN labels |-> Spread(labels[i], [value |-> Undefined])]
    /\ UNCHANGED <<phase, searchTerm, persisted, selectedLabels, inflight, pureVars>>

onClickAccept ==
    /\ Rendered
    /\ onChangeCount < MaxOnChange
    /\ onChangeCount' = onChangeCount + 1
    /\ onChangeArg' = Some(buildSelector(labels))
    /\ UNCHANGED <<phase, labels, searchTerm, persisted, selectedLabels, inflight,
                   pureVars>>

\* const selected = !this.state.labels.find(l => l.name === name)?.selected
ToggledSelected(ls, name) ==
    ~(IsDefined(Find(ls, name)) /\ Get(Find(ls, name)).selected)

\* fault variant of NextValue: deselecting also drops the fetched values
NextValueDropsValues(selected) ==
    IF selected THEN [selected |-> TRUE]
    ELSE [selected |-> FALSE, value |-> Undefined, values |-> Undefined]

\* fault variant of NextValue: deselecting keeps the chosen value
NextValueKeepsValue(selected) == [selected |-> selected]

\* fault variant of NextValue: deselecting also clears the loading flag
NextValueClearsLoading(selected) ==
    IF selected THEN [selected |-> TRUE]
    ELSE [selected |-> FALSE, value |-> Undefined, loading |-> FALSE]

\* const nextValue = selected ? { selected } : { selected, value: undefined }
NextValue(selected) ==
    IF selected THEN [selected |-> TRUE] ELSE [selected |-> FALSE, value |-> Undefined]

\* fault variant of FetchesOnClick: no fetch when the label already has values
FetchesOnClickIfAbsent(ls, name) ==
    ToggledSelected(ls, name) /\ ~IsDefined(Get(Find(ls, name)).values)

\* if (selected) { this.fetchValues(name); }
FetchesOnClick(ls, name) == ToggledSelected(ls, name)

\* fault variant of StoredAfterToggle: the callback reads the labels of before the update
StoredAfterToggleStale(ls) == SelectedNames(labels)

\* the setState callback: store.setObject(LAST_USED_LABELS_KEY, selectedLabels)
StoredAfterToggle(ls) == SelectedNames(ls)

onClickLabel(name) ==
    /\ Rendered
    /\ UNCHANGED <<phase, searchTerm, selectedLabels, onChangeCount, onChangeArg, pureVars>>
    /\ \E i \in DOMAIN labels : labels[i].name = name
    /\ FetchesOnClick(labels, name) => inflight[name] < MaxInFlight
    /\ LET fetched == IF FetchesOnClick(labels, name)
                      THEN fetchValuesStart(labels, name) ELSE labels
           next == updateLabelState(fetched, name, NextValue(ToggledSelected(labels, name)))
       IN  /\ labels' = next
           /\ persisted' = StoredAfterToggle(next)
    /\ inflight' = IF FetchesOnClick(labels, name)
                   THEN [inflight EXCEPT ![name] = @ + 1] ELSE inflight

\* this.state.labels.find(l => l.name === name && l.value === value)
Active(ls, name, value) ==
    \E i \in DOMAIN ls : ls[i].name = name /\ ls[i].value = Some(value)

\* fault variant of ClickedValue: a click always makes the value the chosen one
ClickedValueAlwaysSets(ls, name, value) == [value |-> Some(value)]

\* the fields onClickValue updates
ClickedValue(ls, name, value) ==
    IF ~Active(ls, name, value) THEN [value |-> Some(value)] ELSE [value |-> Undefined]

\* a value row of label `name` with value `value` is on screen
RowShown(ls, term, name, value) ==
    \E i \in DOMAIN ls : ls[i].name = name /\ Includes(RowsOf(ls[i], term), value)

\* the label list onClickValue leaves
AfterClickValue(ls, name, value) == updateLabelState(ls, name, ClickedValue(ls, name, value))

\* fault variant of onClickValue: hands the selector to onChange on every value click
onClickValueNotifies(name, value) ==
    /\ Rendered
    /\ RowShown(labels, searchTerm, name, value)
    /\ onChangeCount < MaxOnChange
    /\ labels' = AfterClickValue(labels, name, value)
    /\ onChangeCount' = onChangeCount + 1
    /\ onChangeArg' = Some(buildSelector(AfterClickValue(labels, name, value)))
    /\ UNCHANGED <<phase, searchTerm, persisted, selectedLabels, inflight, pureVars>>

onClickValue(name, value) ==
    /\ Rendered
    /\ UNCHANGED <<phase, searchTerm, persisted, selectedLabels, inflight,
                   onChangeCount, onChangeArg, pureVars>>
    /\ RowShown(labels, searchTerm, name, value)
    /\ labels' = AfterClickValue(labels, name, value)

----------------------------------------------------------------------------
(* fetchValues after its await *)

\* the fields written when getLabelValues resolves with values
\* fault variant of ResolvedFields: the result clears loading and stores no values
ResolvedFieldsLoadingOnly(values) == [loading |-> FALSE]

\* fault variant of ResolvedFields: the result also clears the chosen value
ResolvedFieldsResetsValue(values) ==
    [values |-> Some(values), loading |-> FALSE, value |-> Undefined]

\* fault variant of ResolvedFields: the result stores the values and leaves loading set
ResolvedFieldsKeepsLoading(values) == [values |-> Some(values)]

ResolvedFields(values) == [values |-> Some(values), loading |-> FALSE]

\* fault variant of fetchResolved: the result of a fetch is dropped when its label
\* is no longer selected
fetchResolvedIfSelected(name, values) ==
    /\ inflight[name] > 0
    /\ inflight' = [inflight EXCEPT ![name] = @ - 1]
    /\ labels' = IF IsDefined(Find(labels, name)) /\ Get(Find(labels, name)).selected
                 THEN updateLabelState(labels, name, ResolvedFields(values))
                 ELSE labels
    /\ UNCHANGED <<phase, searchTerm, persisted, selectedLabels, onChangeCount, onChangeArg,
                   pureVars>>

fetchResolved(name, values) ==
    /\ inflight[name] > 0
    /\ inflight' = [inflight EXCEPT ![name] = @ - 1]
    /\ labels' = updateLabelState(labels, name, ResolvedFields(values))
    /\ UNCHANGED <<phase, searchTerm, persisted, selectedLabels, onChangeCount, onChangeArg,
                   pureVars>>

\* the label list after the catch block: console.error(error) and nothing else
AfterRejection(ls, name) == ls

fetchRejected(name) ==
    /\ inflight[name] > 0
    /\ inflight' = [inflight EXCEPT ![name] = @ - 1]
    /\ labels' = AfterRejection(labels, name)
    /\ UNCHANGED <<phase, searchTerm, persisted, selectedLabels, onChangeCount, onChangeArg,
                   pureVars>>

----------------------------------------------------------------------------
(* Specifications *)

Next ==
    \/ componentDidMount
    \/ \E keys \in KeyLists : startResolved(keys)
    \/ startRejected
    \/ \E term \in SearchTerms : onChangeSearch(term)
    \/ onClickAccept
    \/ \E name \in Names : onClickLabel(name)
    \/ \E name \in Names, value \in Values : onClickValue(name, value)
    \/ \E name \in Names, values \in ValueLists : fetchResolved(name, values)
    \/ \E name \in Names : fetchRejected(name)

Spec == Init /\ [][Next]_vars

\* the steps of a run in which no getLabelValues call rejects
NextResolving ==
    \/ componentDidMount
    \/ \E keys \in KeyLists : startResolved(keys)
    \/ startRejected
    \/ \E term \in SearchTerms : onChangeSearch(term)
    \/ onClickAccept
    \/ \E name \in Names : onClickLabel(name)
    \/ \E name \in Names, value \in Values : onClickValue(name, value)
    \/ \E name \in Names, values \in ValueLists : fetchResolved(name, values)

\* every getLabelValues call in flight resolves in the end: the continuation of
\* fetchValues after its await runs once the promise settles
EveryCallResolves ==
    \A name \in Names : WF_vars(\E values \in ValueLists : fetchResolved(name, values))

SpecLive == Init /\ [][NextResolving]_vars /\ EveryCallResolves

\* the label lists buildSelector is applied to in SpecBuildSelector
BuildLabels ==
    [name : Names, selected : BOOLEAN, loading : {FALSE}, values : {Undefined},
     value : {Undefined} \cup {Some(v) : v \in Values}]

BuildInputs == UNION {[1..n -> BuildLabels] : n \in 0..MaxBuildLen}

InitBuildSelector ==
    /\ phase = "constructed"
    /\ labels = <<>>
    /\ searchTerm = ""
    /\ persisted = <<>>
    /\ selectedLabels = <<>>
    /\ inflight = Zero
    /\ onChangeCount = 0
    /\ onChangeArg = Undefined
    /\ selectorArg \in BuildInputs
    /\ selectorResult = Undefined

callBuildSelector ==
    /\ selectorResult = Undefined
    /\ selectorResult' = Some(buildSelector(selectorArg))
    /\ UNCHANGED <<compVars, selectorArg>>

NextBuildSelector == callBuildSelector

SpecBuildSelector == InitBuildSelector /\ [][NextBuildSelector]_vars

----------------------------------------------------------------------------
(* Properties *)

\* label l has a non-empty chosen value
HasValue(l) == l.value # Undefined /\ l.value # <<"">>

\* the entries name="value" of the labels of ls from index i on that have a value,
\* each but the first preceded by a comma
RECURSIVE EntriesFrom(_, _, _)
EntriesFrom(ls, i, first) ==
    IF i > Len(ls) THEN ""
    ELSE IF HasValue(ls[i])
         THEN (IF first THEN "" ELSE ",") \o ls[i].name \o "=\"" \o ls[i].value[1] \o "\""
              \o EntriesFrom(ls, i + 1, FALSE)
         ELSE EntriesFrom(ls, i + 1, first)

ExpectedSelector(ls) == "{" \o EntriesFrom(ls, 1, TRUE) \o "}"

\* C1: for every label list, buildSelector returns "{}" when no label has a chosen
\* value, and otherwise "{" + the entries name="value" of exactly the labels with a
\* non-empty chosen value, in list order, joined by "," + "}"; a label that is
\* selected without a chosen value contributes nothing.
C1_BuildSelector ==
    IsDefined(selectorResult) =>
        /\ Get(selectorResult) = ExpectedSelector(selectorArg)
        /\ (\A i \in DOMAIN selectorArg : ~HasValue(selectorArg[i]))
               => Get(selectorResult) = "{}"

\* buildSelector has been applied to the list [job selected with value api, env
\* selected without a value] and returned {job="api"}
C1_Witness ==
    /\ selectorArg = << [name |-> "job", selected |-> TRUE, loading |-> FALSE,
                         values |-> Undefined, value |-> Some("api")],
                        [name |-> "env", selected |-> TRUE, loading |-> FALSE,
                         values |-> Undefined, value |-> Undefined] >>
    /\ selectorResult = Some("{job=\"api\"}")

\* C2: the accept action invokes onChange exactly once, with the selector of the
\* current labels, and changes nothing else: labels, search term, persisted list
\* and the fetches in flight stay as they are.
C2_AcceptInvokesOnChange ==
    [][onClickAccept =>
          /\ onChangeCount' = onChangeCount + 1
          /\ onChangeArg' = Some(ExpectedSelector(labels))
          /\ labels' = labels
          /\ searchTerm' = searchTerm
          /\ persisted' = persisted
          /\ inflight' = inflight]_vars

\* onChange has been invoked once, with {job="api"}, and job is still selected
\* with value api
C2_Witness ==
    /\ onChangeCount = 1
    /\ onChangeArg = Some("{job=\"api\"}")
    /\ \E i \in DOMAIN labels :
          labels[i].name = "job" /\ labels[i].selected /\ labels[i].value = Some("api")

\* C3: onChange is invoked by the accept action only: an accept step raises the
\* number of invocations by one, and no other step (mount, label toggle, value
\* click, search edit, fetch success or failure) changes it.
C3_OnChangeOnlyOnAccept ==
    [][/\ onClickAccept => onChangeCount' = onChangeCount + 1
       /\ ~onClickAccept => (onChangeCount' = onChangeCount /\ onChangeArg' = onChangeArg)]_vars

\* one onChange invocation, in a run that also toggled a label (the store holds a
\* list no mount starts from), chose a value, typed a search term and has a fetch
\* in flight
C3_Witness ==
    /\ onChangeCount = 1
    /\ persisted = <<"job", "env">>
    /\ searchTerm = "BA"
    /\ \E i \in DOMAIN labels : IsDefined(labels[i].value)
    /\ inflight["env"] > 0

\* the names of ls, in order
NamesOf(ls) == [i \in DOMAIN ls |-> ls[i].name]

\* the names of the selected labels among ls[i..], in the order of ls
RECURSIVE PickedFrom(_, _)
PickedFrom(ls, i) ==
    IF i > Len(ls) THEN <<>>
    ELSE (IF ls[i].selected THEN <<ls[i].name>> ELSE <<>>) \o PickedFrom(ls, i + 1)

\* s lists exactly the names of the selected labels of ls, in the order of ls
ListsSelected(s, ls) == s = PickedFrom(ls, 1)

\* C4: when start() resolves, each key of getLabelKeys() is selected exactly when
\* its name is in the list read from the store at mount, no label has a chosen
\* value, and exactly one getLabelValues call is issued for each pre-selected
\* label and none for any other name.
C4_MountPreselects ==
    [][(phase = "starting" /\ phase' = "ready") =>
          /\ selectedLabels = persisted
          /\ NamesOf(labels') \in KeyLists
          /\ \A i \in DOMAIN labels' :
                /\ labels'[i].selected <=> Includes(selectedLabels, labels'[i].name)
                /\ labels'[i].value = Undefined
                /\ inflight'[labels'[i].name] - inflight[labels'[i].name]
                      = IF Includes(selectedLabels, labels'[i].name) THEN 1 ELSE 0
          /\ \A n \in Names :
                (\A i \in DOMAIN labels' : labels'[i].name # n) => inflight'[n] = inflight[n]]_vars

\* the state start() leaves when the store held [env, job] and the only key is
\* job: job is pre-selected with its one fetch in flight, nothing was fetched for
\* env, and the store still holds a name no toggle could have written
C4_Witness ==
    /\ phase = "ready"
    /\ persisted = <<"env", "job">>
    /\ labels = << [name |-> "job", selected |-> TRUE, loading |-> TRUE,
                    values |-> Undefined, value |-> Undefined] >>
    /\ inflight = [n \in Names |-> IF n = "job" THEN 1 ELSE 0]
    /\ searchTerm = ""
    /\ onChangeCount = 0

\* a step that turns label i from not selected to selected
TogglesOn(i) == i \in DOMAIN labels /\ ~labels[i].selected /\ labels'[i].selected

\* a step that turns label i from selected to not selected
TogglesOff(i) == i \in DOMAIN labels /\ labels[i].selected /\ ~labels'[i].selected

\* C5: toggling a label from not selected to selected while its values are absent
\* issues exactly one getLabelValues call for that label, none for any other
\* label, and marks the label as loading.
C5_SelectFetchesOnce ==
    [][\A i \in DOMAIN labels :
          (TogglesOn(i) /\ labels[i].values = Undefined) =>
              /\ inflight'[labels[i].name] = inflight[labels[i].name] + 1
              /\ \A n \in Names \ {labels[i].name} : inflight'[n] = inflight[n]
              /\ labels'[i].loading]_vars

\* env was selected by a click (job never had a fetch, so the mount pre-selected
\* nothing): env is loading without values and its one fetch is in flight
C5_Witness ==
    /\ labels = << [name |-> "job", selected |-> FALSE, loading |-> FALSE,
                    values |-> Undefined, value |-> Undefined],
                   [name |-> "env", selected |-> TRUE, loading |-> TRUE,
                    values |-> Undefined, value |-> Undefined] >>
    /\ persisted = <<"env">>
    /\ inflight = [n \in Names |-> IF n = "env" THEN 1 ELSE 0]

\* C6 as stated: toggling a label to selected while its values are present issues
\* no getLabelValues call.
C6_Original ==
    [][\A i \in DOMAIN labels :
          (TogglesOn(i) /\ IsDefined(labels[i].values)) => inflight' = inflight]_vars

\* C6, amended: toggling a label to selected while its values are present issues
\* exactly one more getLabelValues call for that label (and none for another),
\* marks it loading, and keeps the values fetched earlier.
C6_ReselectFetchesAgain ==
    [][\A i \in DOMAIN labels :
          (TogglesOn(i) /\ IsDefined(labels[i].values)) =>
              /\ inflight'[labels[i].name] = inflight[labels[i].name] + 1
              /\ \A n \in Names \ {labels[i].name} : inflight'[n] = inflight[n]
              /\ labels'[i].loading
              /\ labels'[i].values = labels[i].values]_vars

\* job is selected and loading again, its one fetch in flight, with the values of
\* an earlier fetch still there: only a re-selection with values present leads here
C6_Witness ==
    \E i \in DOMAIN labels :
        /\ labels[i].name = "job"
        /\ labels[i].selected
        /\ labels[i].loading
        /\ labels[i].values = Some(<<"api", "web">>)
        /\ inflight["job"] = 1

\* C7: toggling a selected label to deselected sets selected to false and clears
\* its chosen value; its fetched values, its loading flag and every other label
\* stay as they are, and no fetch is issued.
C7_DeselectKeepsValues ==
    [][\A i \in DOMAIN labels :
          TogglesOff(i) =>
              /\ DOMAIN labels' = DOMAIN labels
              /\ labels'[i].value = Undefined
              /\ labels'[i].values = labels[i].values
              /\ labels'[i].loading = labels[i].loading
              /\ labels'[i].name = labels[i].name
              /\ \A j \in DOMAIN labels \ {i} : labels'[j] = labels[j]
              /\ inflight' = inflight]_vars

\* job was deselected after its values had arrived and a value had been chosen
\* (env still has one): not selected, no chosen value, the fetched values kept
C7_Witness ==
    /\ labels = << [name |-> "job", selected |-> FALSE, loading |-> FALSE,
                    values |-> Some(<<"api", "web">>), value |-> Undefined],
                   [name |-> "env", selected |-> TRUE, loading |-> FALSE,
                    values |-> Some(<<"api", "web">>), value |-> Some("web")] >>
    /\ persisted = <<"env">>

\* the chosen value of the label called name
ValueOf(ls, name) == Get(Find(ls, name)).value

\* C8 as stated, its last sentence: clicking the same (label, value) pair twice in
\* succession leaves the label with no value chosen, whatever was chosen before.
C8_Original ==
    \A n \in Names, v \in Values :
        RowShown(labels, searchTerm, n, v) =>
            ValueOf(AfterClickValue(AfterClickValue(labels, n, v), n, v), n) = Undefined

\* C8, amended: clicking value v of a label makes v the chosen value when it was
\* not (replacing any other choice) and clears the choice when it was; the
\* label's selected, values and loading fields and the other labels are
\* unchanged.  Clicking the same pair a second time leaves no value chosen when v
\* was not the chosen value before the first click, and leaves v chosen when it was.
C8_ValueClickToggles ==
    [][\A n \in Names, v \in Values :
          onClickValue(n, v) =>
              /\ DOMAIN labels' = DOMAIN labels
              /\ \A i \in DOMAIN labels :
                    IF labels[i].name = n
                    THEN /\ labels'[i].value =
                               (IF labels[i].value = Some(v) THEN Undefined ELSE Some(v))
                         /\ labels'[i].name = n
                         /\ labels'[i].selected = labels[i].selected
                         /\ labels'[i].values = labels[i].values
                         /\ labels'[i].loading = labels[i].loading
                         /\ RowShown(labels', searchTerm', n, v)
                         /\ AfterClickValue(labels', n, v)[i].value =
                               (IF labels[i].value = Some(v) THEN Some(v) ELSE Undefined)
                    ELSE labels'[i] = labels[i]]_vars

\* a value click has chosen web for job, the second of its fetched values
C8_Witness ==
    \E i \in DOMAIN labels :
        /\ labels[i].name = "job"
        /\ labels[i].selected
        /\ labels[i].values = Some(<<"api", "web">>)
        /\ labels[i].value = Some("web")

\* C9: when a getLabelValues call for a label rejects, the label's loading flag
\* becomes false, the label keeps its selected flag, its values and its chosen
\* value, and no other label changes.
C9_FailureClearsLoading ==
    [][\A n \in Names :
          fetchRejected(n) =>
              /\ DOMAIN labels' = DOMAIN labels
              /\ \A i \in DOMAIN labels :
                    IF labels[i].name = n
                    THEN /\ ~labels'[i].loading
                         /\ labels'[i].name = n
                         /\ labels'[i].selected = labels[i].selected
                         /\ labels'[i].values = labels[i].values
                         /\ labels'[i].value = labels[i].value
                    ELSE labels'[i] = labels[i]]_vars

\* C10: the persisted list is written by label toggles only; a toggle replaces it
\* by exactly the names of the labels selected after the toggle, in label order;
\* so once a toggle has written it, it lists the selected labels after every
\* further step, the last toggle deciding.
C10_StoreWrittenByToggles ==
    [][/\ IF \E i \in DOMAIN labels : TogglesOn(i) \/ TogglesOff(i)
          THEN ListsSelected(persisted', labels')
          ELSE persisted' = persisted
       /\ (phase = "ready" /\ ListsSelected(persisted, labels))
             => ListsSelected(persisted', labels')]_vars

\* toggles have left job and env selected and the store holds [job, env], the
\* label order, which no mount starts from
C10_Witness ==
    /\ persisted = <<"job", "env">>
    /\ NamesOf(labels) = <<"job", "env">>
    /\ \A i \in DOMAIN labels : labels[i].selected

\* the characters of t from index i on occur in s from index j on, in that order
\* with anything in between, letter case aside
RECURSIVE OccursInOrder(_, _, _, _)
OccursInOrder(t, i, s, j) ==
    \/ i > Len(t)
    \/ \E k \in j..Len(s) : Lower(s[k]) = Lower(t[i]) /\ OccursInOrder(t, i + 1, s, k + 1)

\* the row of value v is among the rows render() shows for label l
Keeps(l, term, v) == Includes(RowsOf(l, term), v)

\* characters with a meaning of their own in a pattern
Metacharacters == {".", "*", "("}

\* a search term of plain characters only
PlainTerm(term) == \A k \in DOMAIN Chars(term) : Chars(term)[k] \notin Metacharacters

\* C11 as stated: a value row of a selected label is kept exactly when the
\* characters of the search term occur in its display string in the typed order,
\* letter case aside, whatever the search term; in particular the search term "ab"
\* keeps the row job="api".
C11_Original ==
    \A i \in DOMAIN labels :
        (labels[i].selected /\ IsDefined(labels[i].values)) =>
            \A k \in DOMAIN Get(labels[i].values) :
                LET v == Get(labels[i].values)[k]
                IN  /\ Keeps(labels[i], searchTerm, v)
                          <=> OccursInOrder(Chars(searchTerm), 1, Display(labels[i].name, v), 1)
                    /\ (searchTerm = "ab" /\ labels[i].name = "job" /\ v = "api")
                          => Keeps(labels[i], searchTerm, v)

\* C11, amended: for a search term of plain characters (none with a meaning of its
\* own in a pattern), a value row of a selected label is kept exactly when the
\* characters of the term occur in its display string name="value" in the typed
\* order with anything in between, letter case aside; the empty term keeps every
\* row; the term "BA" keeps the row job="api" and the term "ab" does not (no b
\* follows the a of api).
C11_SearchKeepsInOrderMatches ==
    \A i \in DOMAIN labels :
        (labels[i].selected /\ IsDefined(labels[i].values)) =>
            \A k \in DOMAIN Get(labels[i].values) :
                LET v == Get(labels[i].values)[k]
                IN  /\ PlainTerm(searchTerm) =>
                          (Keeps(labels[i], searchTerm, v)
                              <=> OccursInOrder(Chars(searchTerm), 1, Display(labels[i].name, v), 1))
                    /\ searchTerm = "" => Keeps(labels[i], searchTerm, v)
                    /\ (labels[i].name = "job" /\ v = "api") =>
                          /\ searchTerm = "BA" => Keeps(labels[i], searchTerm, v)
                          /\ searchTerm = "ab" => ~Keeps(labels[i], searchTerm, v)

\* the search term is BA and job is selected with the values api and web: the row
\* job="api" is shown and the row job="web" is filtered out
C11_Witness ==
    /\ searchTerm = "BA"
    /\ \E i \in DOMAIN labels :
          /\ labels[i].name = "job"
          /\ labels[i].selected
          /\ labels[i].values = Some(<<"api", "web">>)
          /\ RowsOf(labels[i], searchTerm) = <<"api">>

\* new RegExp(...) throws on the pattern built from term
FailsToCompile(term) == ~IsDefined(NewRegExp(term))

\* C12: in the state after any step, when the search term yields a pattern that
\* fails to compile, the rows shown for every selected label with values are all of
\* its fetched values, unfiltered; and the step that brings the failing term in
\* changes nothing but the search term, which stays as typed: labels and the
\* persisted list are unchanged.
C12_BadPatternShowsAll ==
    [][ FailsToCompile(searchTerm') =>
          /\ \A i \in DOMAIN labels' :
                (labels'[i].selected /\ IsDefined(labels'[i].values)) =>
                    RowsOf(labels'[i], searchTerm') = Get(labels'[i].values)
          /\ searchTerm' # searchTerm =>
                /\ searchTerm' \in SearchTerms
                /\ labels' = labels
                /\ persisted' = persisted
                /\ inflight' = inflight
                /\ onChangeCount' = onChangeCount ]_vars

\* the search term "(" does not compile while job is selected with fetched
\* values api and web, and both rows are shown
C12_Witness ==
    /\ searchTerm = "("
    /\ FailsToCompile(searchTerm)
    /\ \E i \in DOMAIN labels :
          /\ labels[i].name = "job"
          /\ labels[i].selected
          /\ labels[i].values = Some(<<"api", "web">>)
          /\ RowsOf(labels[i], searchTerm) = <<"api", "web">>

\* C13: a successful resolution of a fetch for label L, whatever else is in flight
\* and in whatever order the fetches resolve, sets L's values to the fetched list
\* and L's loading flag to false and changes nothing else: L's selected flag and
\* chosen value, every other label, the search term and the persisted list are
\* unchanged.
C13_ResolveTouchesOnlyItsLabel ==
    [][\A n \in Names, vs \in ValueLists :
          fetchResolved(n, vs) =>
              /\ DOMAIN labels' = DOMAIN labels
              /\ \A i \in DOMAIN labels :
                    IF labels[i].name = n
                    THEN /\ labels'[i].values = Some(vs)
                         /\ labels'[i].loading = FALSE
                         /\ labels'[i].name = n
                         /\ labels'[i].selected = labels[i].selected
                         /\ labels'[i].value = labels[i].value
                    ELSE labels'[i] = labels[i]
              /\ searchTerm' = searchTerm
              /\ persisted' = persisted
              /\ \A m \in Names \ {n} : inflight'[m] = inflight[m]]_vars

\* fetches for job and env were both in flight and the one for env, second in
\* label order, has resolved first: env has its values while job is still loading
\* with its fetch in flight
C13_Witness ==
    /\ labels = << [name |-> "job", selected |-> TRUE, loading |-> TRUE,
                    values |-> Undefined, value |-> Undefined],
                   [name |-> "env", selected |-> TRUE, loading |-> FALSE,
                    values |-> Some(<<"api", "web">>), value |-> Undefined] >>
    /\ inflight = [n \in Names |-> IF n = "job" THEN 1 ELSE 0]

\* C14: deselecting a label leaves its fetches in flight, and the successful result
\* of a fetch for a label that is not selected still sets the label's values and
\* sets loading to false, while the label remains not selected with no chosen
\* value.
C14_DeselectDoesNotCancel ==
    [][/\ \A i \in DOMAIN labels : TogglesOff(i) => inflight' = inflight
       /\ \A n \in Names, vs \in ValueLists :
             (fetchResolved(n, vs) /\ IsDefined(Find(labels, n))
                                   /\ ~Get(Find(labels, n)).selected) =>
                 LET after == Get(Find(labels', n))
                 IN  /\ after.values = Some(vs)
                     /\ after.loading = FALSE
                     /\ after.selected = FALSE
                     /\ after.value = Undefined]_vars

\* job was deselected before its fetch completed: not selected, still loading, no
\* values yet, its getLabelValues call still in flight
C14_Witness ==
    /\ labels = << [name |-> "job", selected |-> FALSE, loading |-> TRUE,
                    values |-> Undefined, value |-> Undefined] >>
    /\ persisted = <<>>
    /\ inflight = [n \in Names |-> IF n = "job" THEN 1 ELSE 0]

\* C15 as stated: while a getLabelValues call issued for a label has not resolved,
\* the label's loading flag is true, whatever toggles, value clicks or other fetch
\* results have occurred since the call was issued.
C15_Original ==
    \A i \in DOMAIN labels : inflight[labels[i].name] > 0 => labels[i].loading

\* C15, amended: a loading flag that is true stays true across every step except
\* the successful resolution of a fetch for the same label: toggles, value clicks,
\* search input, accept, rejections and the results of fetches for other labels
\* leave it true, so a label whose only fetch in flight never resolves is loading
\* in every subsequent state; a second fetch for the same label, issued by
\* re-selecting it, clears the flag when it resolves although the first is still
\* in flight.
C15_LoadingClearedOnlyByOwnResult ==
    [][\A i \in DOMAIN labels :
          (labels[i].loading /\ i \in DOMAIN labels') =>
              \/ labels'[i].loading
              \/ /\ inflight'[labels[i].name] = inflight[labels[i].name] - 1
                 /\ IsDefined(labels'[i].values)
                 /\ \A m \in Names \ {labels[i].name} : inflight'[m] = inflight[m]]_vars

\* the fetch for job is still in flight and job is still loading although job has
\* been deselected since, the fetch for env has resolved and a value of env has
\* been clicked
C15_Witness ==
    /\ labels = << [name |-> "job", selected |-> FALSE, loading |-> TRUE,
                    values |-> Undefined, value |-> Undefined],
                   [name |-> "env", selected |-> TRUE, loading |-> FALSE,
                    values |-> Some(<<"api", "web">>), value |-> Some("api")] >>
    /\ inflight = [n \in Names |-> IF n = "job" THEN 1 ELSE 0]

\* the selected labels of ls, in order
SelectedOnly(ls) == SelectSeq(ls, LAMBDA l : l.selected)

\* every label of ls with a chosen value is selected, and the selector built from
\* ls is the one built from its selected labels alone
ValueImpliesSelected(ls) ==
    /\ \A i \in DOMAIN ls : IsDefined(ls[i].value) => ls[i].selected
    /\ buildSelector(ls) = ExpectedSelector(SelectedOnly(ls))

\* C16: in the state after every step (the initial state has no label) a label
\* that has a chosen value is selected, so
\* the selector string displayed has entries only for currently selected labels,
\* and so has the selector handed to onChange by the accept action; a value click
\* acts only on a row of a selected label with loaded values.
C16_ValueOnlyOnSelected ==
    [][/\ ValueImpliesSelected(labels')
       /\ onClickAccept => onChangeArg' = Some(ExpectedSelector(SelectedOnly(labels)))
       /\ \A i \in DOMAIN labels :
             (i \in DOMAIN labels' /\ labels'[i].value # labels[i].value
                                   /\ IsDefined(labels'[i].value)) =>
                 /\ labels[i].selected
                 /\ IsDefined(labels[i].values)
                 /\ Includes(Get(labels[i].values), Get(labels'[i].value))]_vars

\* job is selected with the chosen value api and env, once selected (its values
\* are loaded), is deselected and has no chosen value; the selector handed to
\* onChange names job alone
C16_Witness ==
    /\ labels = << [name |-> "job", selected |-> TRUE, loading |-> FALSE,
                    values |-> Some(<<"api", "web">>), value |-> Some("api")],
                   [name |-> "env", selected |-> FALSE, loading |-> FALSE,
                    values |-> Some(<<"api", "web">>), value |-> Undefined] >>
    /\ onChangeArg = Some("{job=\"api\"}")
    /\ buildSelector(labels) = "{job=\"api\"}"

\* C17 as stated: in every reachable state a selected label is either loading or
\* has its values present, and a label with loading false and values present has
\* no fetch of its own still in flight.
C17_Original ==
    \A i \in DOMAIN labels :
        /\ labels[i].selected => (labels[i].loading \/ IsDefined(labels[i].values))
        /\ (~labels[i].loading /\ IsDefined(labels[i].values)) =>
               inflight[labels[i].name] = 0

\* C17, amended: after every step a selected label is either loading or has its
\* values present; a label that becomes selected is loading at once; a loading
\* flag goes from true to false only as one fetch of the label leaves the flight
\* and the values are present; and a label that is not loading has a fetch of its
\* own in flight only when it had one already or when two or more fetches for it
\* overlapped, which happens when it is deselected and re-selected before the first
\* fetch resolves.
C17_SubStates ==
    [][\A i \in DOMAIN labels' :
          /\ labels'[i].selected => (labels'[i].loading \/ IsDefined(labels'[i].values))
          /\ i \in DOMAIN labels =>
                /\ TogglesOn(i) => labels'[i].loading
                /\ (labels[i].loading /\ ~labels'[i].loading) =>
                      /\ IsDefined(labels'[i].values)
                      /\ inflight'[labels[i].name] = inflight[labels[i].name] - 1
                /\ (~labels'[i].loading /\ inflight'[labels[i].name] > 0) =>
                      \/ ~labels[i].loading
                            /\ inflight'[labels[i].name] = inflight[labels[i].name]
                      \/ inflight[labels[i].name] >= 2]_vars

\* job is selected and loaded (values present, not loading, no fetch in flight)
\* while env is selected and loading (no values yet, its fetch in flight)
C17_Witness ==
    /\ labels = << [name |-> "job", selected |-> TRUE, loading |-> FALSE,
                    values |-> Some(<<"api", "web">>), value |-> Undefined],
                   [name |-> "env", selected |-> TRUE, loading |-> TRUE,
                    values |-> Undefined, value |-> Undefined] >>
    /\ inflight = [n \in Names |-> IF n = "env" THEN 1 ELSE 0]

\* C18: the loading placeholder is rendered while start() is pending, and once
\* start() has resolved the label list is populated from getLabelKeys() and the
\* chips, search input and accept action are rendered instead of the placeholder,
\* for every key list the provider returns.
C18_ReadyAfterStart ==
    /\ phase \in {"constructed", "starting"} => ~Rendered
    /\ phase = "ready" => (Rendered /\ NamesOf(labels) \in KeyLists)

\* the label called n is selected
LabelSelected(n) == IsDefined(Find(labels, n)) /\ Get(Find(labels, n)).selected

\* the label called n is not loading and has its values
LabelLoaded(n) ==
    /\ IsDefined(Find(labels, n))
    /\ ~Get(Find(labels, n)).loading
    /\ IsDefined(Get(Find(labels, n)).values)

\* C19: when every getLabelValues call issued resolves successfully in the end, a
\* label that from some point on remains selected (the user has stopped toggling
\* it) from some point on has loading false and its values present, also when
\* several fetches for it overlap.
C19_SelectedEventuallyLoaded ==
    \A n \in Names : <>[]LabelSelected(n) => <>[]LabelLoaded(n)

\* job was selected, deselected and re-selected before its first fetch resolved:
\* one of the two overlapping fetches has resolved, job is selected and loaded, and
\* the other fetch is still in flight
C19_Witness ==
    /\ LabelSelected("job")
    /\ LabelLoaded("job")
    /\ inflight["job"] = 1
    /\ persisted = <<"job">>

====
